---- MODULE Spec2Model ----
(***************************************************************************)
(* Model of src/utils/subtitleParser.ts: the Japanese tokenizer            *)
(* (tokenizeJapanese, createWord).                                         *)
(*                                                                         *)
(* A string is a sequence of UTF-16 code units (naturals), so that the     *)
(* regular-expression character classes of the source are range and set    *)
(* tests on code units, exactly as the JavaScript engine evaluates them on *)
(* text[i].  The source indexes strings from 0; CharAt hides the shift.    *)
(***************************************************************************)
EXTENDS Integers, Sequences, FiniteSets, TLC

VARIABLES text, sentenceId, i, words, wordIndex, pc, spans, memo, callNo

\* the subtitle file, the parser's result and the position of parseSubtitleFile
VARIABLES fileName, cues, eol, content, parser, entries, sentences, threw, ppc
\* the import component: the handler that ran, its error message, and the
\* sentences and file name that onSubtitleImport stored
VARIABLES route, error, importedSentences, subtitleFileName
\* the vocabulary of useVocabulary and the last call made on it
VARIABLES vocabulary, call
\* the word explainer: the word selected in App (its word prop), its state,
\* the cache of the dictionary service and the lookups awaiting a response
VARIABLES selectedWord, dictEntry, isLoading, lookupError, cache, lookups
\* the audio player: the sentences it is given, its current time, the index
\* of the current sentence kept by App, and the handler that ran last
VARIABLES activeSentences, currentTime, currentIndex, handler

tokVars == <<text, sentenceId, i, words, wordIndex, pc, spans, memo, callNo>>

parVars ==
    <<fileName, cues, eol, content, parser, entries, sentences, threw, ppc>>

impVars == <<route, error, importedSentences, subtitleFileName>>

vocVars == <<vocabulary, call>>

dictVars ==
    <<selectedWord, dictEntry, isLoading, lookupError, cache, lookups>>

playVars == <<activeSentences, currentTime, currentIndex, handler>>

uiVars == <<vocVars, dictVars, playVars>>

vars == <<tokVars, parVars, impVars, uiVars>>

(***************************************************************************)
(* Bounds of the model.                                                    *)
(***************************************************************************)
MaxLen == 4

DetMaxLen == 1

FairMaxLen == 3

MaxCalls == 3

\* 猫 は い コ ー ・ 。 space a : one or two code units of every class the
\* scan distinguishes, the katakana-block characters ー and ・ included.
Alphabet == {29483, 12399, 12356, 12467, 12540, 12539, 12290, 32, 97}

\* 猫 は コ 。 space a : one code unit of every class
DetAlphabet == {29483, 12399, 12467, 12290, 32, 97}

StringsUpTo(A, n) == UNION {[1..k -> A] : k \in 0..n}

Texts == StringsUpTo(Alphabet, MaxLen)

\* 猫は可愛い and コーヒーを飲みます。
SampleTexts ==
    {<<29483, 12399, 21487, 24859, 12356>>,
     <<12467, 12540, 12498, 12540, 12434, 39154, 12415, 12414, 12377, 12290>>}

DetTexts == StringsUpTo(DetAlphabet, DetMaxLen) \cup SampleTexts

FairTexts == StringsUpTo(Alphabet, FairMaxLen)

\* "sub-1" and "s"
SegmentIds == {<<115, 117, 98, 45, 49>>, <<115>>}

\* "sub-1"
DetSegmentIds == {<<115, 117, 98, 45, 49>>}

(***************************************************************************)
(* Character classes.                                                      *)
(***************************************************************************)
CharAt(t, j) == t[j + 1]

\* /[一-龯㐀-䶿]/
kanjiPattern(c) == (c >= 19968 /\ c <= 40879) \/ (c >= 13312 /\ c <= 19903)

\* /[぀-ゟ]/
hiraganaPattern(c) == c >= 12352 /\ c <= 12447

\* /[゠-ヿ]/
katakanaPattern(c) == c >= 12448 /\ c <= 12543

\* 。、！？「」『』（）・… and . , ! ? ( ) [ ]
PunctChars ==
    {12290, 12289, 65281, 65311, 12300, 12301, 12302, 12303, 65288, 65289,
     12539, 8230, 46, 44, 33, 63, 40, 41, 91, 93}

punctPattern(c) == c \in PunctChars

\* the code units matched by /\s/
WhiteSpaceChars ==
    {9, 10, 11, 12, 13, 32, 160, 5760} \cup (8192..8202)
        \cup {8232, 8233, 8239, 8287, 12288, 65279}

whitespacePattern(c) == c \in WhiteSpaceChars

\* は が を に の で へ と や も か ね よ わ な ば て た だ
particles ==
    {<<12399>>, <<12364>>, <<12434>>, <<12395>>, <<12398>>, <<12391>>,
     <<12408>>, <<12392>>, <<12420>>, <<12418>>, <<12363>>, <<12397>>,
     <<12424>>, <<12431>>, <<12394>>, <<12400>>, <<12390>>, <<12383>>,
     <<12384>>}

\* the prolonged-sound mark tested by text[i] === 'ー'
ProlongedMark == 12540

(***************************************************************************)
(* createWord and the id template.                                         *)
(***************************************************************************)
RECURSIVE ToDecimal(_)
ToDecimal(n) ==
    IF n < 10 THEN <<48 + n>> ELSE Append(ToDecimal(n \div 10), 48 + (n % 10))

\* `${sentenceId}-w${wordIndex}`
WordId(sid, idx) == sid \o <<45, 119>> \o ToDecimal(idx)

\* '点击查看更多'
PlaceholderMeaning == <<28857, 20987, 26597, 30475, 26356, 22810>>

\* createWord filling the reading with the surface text
createWordWithReading(t, id) ==
    [id |-> id, text |-> t, reading |-> t, meaning |-> PlaceholderMeaning,
     partOfSpeech |-> <<>>, pitch |-> <<>>]

createWord(t, id) ==
    [id |-> id, text |-> t, reading |-> <<>>, meaning |-> PlaceholderMeaning,
     partOfSpeech |-> <<>>, pitch |-> <<>>]

(***************************************************************************)
(* The inner loops of tokenizeJapanese.  Each returns <<segment, i>>.      *)
(***************************************************************************)
RECURSIVE KanjiCollect(_, _, _)
KanjiCollect(t, j, seg) ==
    IF j < Len(t) /\ kanjiPattern(CharAt(t, j))
    THEN KanjiCollect(t, j + 1, Append(seg, CharAt(t, j)))
    ELSE <<seg, j>>

\* the look-ahead without the break at a particle
RECURSIVE OkuriganaLookaheadNoStop(_, _, _)
OkuriganaLookaheadNoStop(t, tempI, buf) ==
    IF tempI < Len(t) /\ hiraganaPattern(CharAt(t, tempI))
    THEN OkuriganaLookaheadNoStop(t, tempI + 1, Append(buf, CharAt(t, tempI)))
    ELSE <<buf, tempI>>

\* the look-ahead testing the character just read, not the buffer
RECURSIVE OkuriganaLookaheadStopsAtParticleChar(_, _, _)
OkuriganaLookaheadStopsAtParticleChar(t, tempI, buf) ==
    IF tempI < Len(t) /\ hiraganaPattern(CharAt(t, tempI))
    THEN LET b == Append(buf, CharAt(t, tempI))
         IN  IF <<CharAt(t, tempI)>> \in particles THEN <<b, tempI>>
             ELSE OkuriganaLookaheadStopsAtParticleChar(t, tempI + 1, b)
    ELSE <<buf, tempI>>

\* the okurigana look-ahead: <<hiraganaBuffer, tempI>>
RECURSIVE OkuriganaLookahead(_, _, _)
OkuriganaLookahead(t, tempI, buf) ==
    IF tempI < Len(t) /\ hiraganaPattern(CharAt(t, tempI))
    THEN LET b == Append(buf, CharAt(t, tempI))
         IN  IF b \in particles THEN <<b, tempI>>
             ELSE OkuriganaLookahead(t, tempI + 1, b)
    ELSE <<buf, tempI>>

\* the kanji branch appending the buffer outside the particle test
KanjiSegmentOverlap(t, j) ==
    LET run == KanjiCollect(t, j, <<>>)
        look == OkuriganaLookahead(t, run[2], <<>>)
    IN  IF look[1] # <<>> /\ look[1] \notin particles
        THEN <<run[1] \o look[1], look[2]>>
        ELSE <<run[1] \o look[1], run[2]>>

KanjiSegment(t, j) ==
    LET run == KanjiCollect(t, j, <<>>)
        look == OkuriganaLookahead(t, run[2], <<>>)
    IN  IF look[1] # <<>> /\ look[1] \notin particles
        THEN <<run[1] \o look[1], look[2]>>
        ELSE run

\* the katakana loop over the letters ァ-ヺ and ー only
RECURSIVE KatakanaCollectLettersOnly(_, _, _)
KatakanaCollectLettersOnly(t, j, seg) ==
    IF j < Len(t)
       /\ ((CharAt(t, j) >= 12449 /\ CharAt(t, j) <= 12538)
           \/ CharAt(t, j) = ProlongedMark)
    THEN KatakanaCollectLettersOnly(t, j + 1, Append(seg, CharAt(t, j)))
    ELSE <<seg, j>>

RECURSIVE KatakanaCollect(_, _, _)
KatakanaCollect(t, j, seg) ==
    IF j < Len(t)
       /\ (katakanaPattern(CharAt(t, j)) \/ CharAt(t, j) = ProlongedMark)
    THEN KatakanaCollect(t, j + 1, Append(seg, CharAt(t, j)))
    ELSE <<seg, j>>

\* the hiragana loop testing the character just read, not the segment
RECURSIVE HiraganaCollectStopsAtParticleChar(_, _, _)
HiraganaCollectStopsAtParticleChar(t, j, seg) ==
    IF j < Len(t) /\ hiraganaPattern(CharAt(t, j))
    THEN LET s == Append(seg, CharAt(t, j))
         IN  IF <<CharAt(t, j)>> \in particles THEN <<s, j + 1>>
             ELSE HiraganaCollectStopsAtParticleChar(t, j + 1, s)
    ELSE <<seg, j>>

RECURSIVE HiraganaCollect(_, _, _)
HiraganaCollect(t, j, seg) ==
    IF j < Len(t) /\ hiraganaPattern(CharAt(t, j))
    THEN LET s == Append(seg, CharAt(t, j))
         IN  IF s \in particles THEN <<s, j + 1>>
             ELSE HiraganaCollect(t, j + 1, s)
    ELSE <<seg, j>>

\* the particle case leaving the segment empty
HiraganaSegmentDropsParticle(t, j) ==
    IF <<CharAt(t, j)>> \in particles
    THEN <<(<<>>), j + 1>>
    ELSE HiraganaCollect(t, j, <<>>)

\* the particle case without i++
HiraganaSegmentNoAdvance(t, j) ==
    IF <<CharAt(t, j)>> \in particles
    THEN <<(<<CharAt(t, j)>>), j>>
    ELSE HiraganaCollect(t, j, <<>>)

HiraganaSegment(t, j) ==
    IF <<CharAt(t, j)>> \in particles
    THEN <<(<<CharAt(t, j)>>), j + 1>>
    ELSE HiraganaCollect(t, j, <<>>)

RECURSIVE OtherCollect(_, _, _)
OtherCollect(t, j, seg) ==
    IF j < Len(t)
       /\ ~kanjiPattern(CharAt(t, j)) /\ ~hiraganaPattern(CharAt(t, j))
       /\ ~katakanaPattern(CharAt(t, j)) /\ ~punctPattern(CharAt(t, j))
       /\ ~whitespacePattern(CharAt(t, j))
    THEN OtherCollect(t, j + 1, Append(seg, CharAt(t, j)))
    ELSE <<seg, j>>

\* segmentType of the character at the scan position
SegmentType(c) ==
    IF kanjiPattern(c) THEN "kanji"
    ELSE IF hiraganaPattern(c) THEN "hiragana"
    ELSE IF katakanaPattern(c) THEN "katakana"
    ELSE "other"

(***************************************************************************)
(* State.  pc is the position of the call: "scan" at the head of the       *)
(* outer while loop, "done" after return.                                  *)
(* spans records, for every pushed word, the scan index before and after   *)
(* the iteration that pushed it; memo is the recorded result of an earlier *)
(* call and callNo counts the calls made.  No action reads spans or memo.  *)
(***************************************************************************)
NoMemo == [text |-> <<>>, sentenceId |-> <<>>, words |-> <<>>, call |-> 0]

\* no subtitle file is being parsed
ParserIdle ==
    /\ fileName = <<>>
    /\ cues = <<>>
    /\ eol = "lf"
    /\ content = <<>>
    /\ parser = "none"
    /\ entries = <<>>
    /\ sentences = <<>>
    /\ threw = FALSE
    /\ ppc = "idle"

\* the import component before any import: no error, nothing imported
ImportIdle ==
    /\ route = "none"
    /\ error = "null"
    /\ importedSentences = <<>>
    /\ subtitleFileName = <<>>

\* no call has been made on the vocabulary
NoCall == [op |-> "none", id |-> 0, text |-> <<>>, correct |-> FALSE]

\* useLocalStorage<VocabularyItem[]>('vocabulary', []) with nothing stored
VocabularyIdle ==
    /\ vocabulary = <<>>
    /\ call = NoCall

\* null, as the value of selectedWord and of a dictionary entry
Null == [null |-> TRUE]

\* 猫 and 犬, the texts that are selected and looked up
LookupTexts == {<<29483>>, <<29356>>}

\* no word selected, nothing looked up yet
ExplainerIdle ==
    /\ selectedWord = Null
    /\ dictEntry = Null
    /\ isLoading = FALSE
    /\ lookupError = FALSE
    /\ cache = [t \in LookupTexts |-> [unset |-> TRUE]]
    /\ lookups = <<>>

\* useState(0) of currentTime and of currentSentenceIndex
PlayerAtStart ==
    /\ currentTime = 0
    /\ currentIndex = 0
    /\ handler = "none"

UiIdle == VocabularyIdle /\ ExplainerIdle /\ PlayerAtStart /\ activeSentences = <<>>

\* the locals of tokenizeJapanese(t, sid) at the head of the scan loop
Entry(t, sid) ==
    /\ ParserIdle
    /\ ImportIdle
    /\ UiIdle
    /\ text = t
    /\ sentenceId = sid
    /\ i = 0
    /\ words = <<>>
    /\ wordIndex = 0
    /\ spans = <<>>
    /\ pc = "scan"
    /\ callNo = 1

Init == (\E t \in Texts, sid \in SegmentIds : Entry(t, sid)) /\ memo = NoMemo

FairInit ==
    (\E t \in FairTexts, sid \in SegmentIds : Entry(t, sid)) /\ memo = NoMemo

DetInit ==
    (\E t \in DetTexts, sid \in DetSegmentIds : Entry(t, sid)) /\ memo = NoMemo

\* a call whose word counter outlives the previous call
CallWithStaleIndex(t, sid) ==
    /\ pc = "done"
    /\ callNo < MaxCalls
    /\ callNo' = callNo + 1
    /\ text' = t
    /\ sentenceId' = sid
    /\ i' = 0
    /\ words' = <<>>
    /\ spans' = <<>>
    /\ pc' = "scan"
    /\ UNCHANGED <<memo, wordIndex, parVars, impVars, uiVars>>

\* a further call of tokenizeJapanese(t, sid) after an earlier one returned
CallWith(t, sid) ==
    /\ pc = "done"
    /\ callNo < MaxCalls
    /\ callNo' = callNo + 1
    /\ text' = t
    /\ sentenceId' = sid
    /\ i' = 0
    /\ words' = <<>>
    /\ wordIndex' = 0
    /\ spans' = <<>>
    /\ pc' = "scan"
    /\ UNCHANGED <<memo, parVars, impVars, uiVars>>

DetCall == \E t \in DetTexts, sid \in DetSegmentIds : CallWith(t, sid)

AtChar == pc = "scan" /\ i < Len(text)

SkipWhitespace ==
    /\ AtChar
    /\ whitespacePattern(CharAt(text, i))
    /\ i' = i + 1
    /\ UNCHANGED <<text, sentenceId, words, wordIndex, pc, spans, memo, callNo>>
    /\ UNCHANGED <<parVars, impVars, uiVars>>

SkipPunctuation ==
    /\ AtChar
    /\ ~whitespacePattern(CharAt(text, i))
    /\ punctPattern(CharAt(text, i))
    /\ i' = i + 1
    /\ UNCHANGED <<text, sentenceId, words, wordIndex, pc, spans, memo, callNo>>
    /\ UNCHANGED <<parVars, impVars, uiVars>>

\* the push without wordIndex++
EmitNoIncrement(r) ==
    /\ i' = r[2]
    /\ IF r[1] # <<>>
       THEN /\ words' = Append(words, createWord(r[1], WordId(sentenceId, wordIndex)))
            /\ spans' = Append(spans, <<i, r[2]>>)
            /\ UNCHANGED wordIndex
       ELSE UNCHANGED <<words, wordIndex, spans>>
    /\ UNCHANGED <<text, sentenceId, pc, memo, callNo, parVars, impVars, uiVars>>

\* if (segment) { words.push(createWord(...)); wordIndex++ }, with i := r[2]
Emit(r) ==
    /\ i' = r[2]
    /\ IF r[1] # <<>>
       THEN /\ words' = Append(words, createWord(r[1], WordId(sentenceId, wordIndex)))
            /\ wordIndex' = wordIndex + 1
            /\ spans' = Append(spans, <<i, r[2]>>)
       ELSE UNCHANGED <<words, wordIndex, spans>>
    /\ UNCHANGED <<text, sentenceId, pc, memo, callNo, parVars, impVars, uiVars>>

AtToken(type) ==
    /\ AtChar
    /\ ~whitespacePattern(CharAt(text, i))
    /\ ~punctPattern(CharAt(text, i))
    /\ SegmentType(CharAt(text, i)) = type

KanjiBranch == AtToken("kanji") /\ Emit(KanjiSegment(text, i))

KatakanaBranch == AtToken("katakana") /\ Emit(KatakanaCollect(text, i, <<>>))

HiraganaBranch == AtToken("hiragana") /\ Emit(HiraganaSegment(text, i))

OtherBranch == AtToken("other") /\ Emit(OtherCollect(text, i, <<>>))

Iterate ==
    \/ SkipWhitespace
    \/ SkipPunctuation
    \/ KanjiBranch
    \/ KatakanaBranch
    \/ HiraganaBranch
    \/ OtherBranch

\* the loop condition fails: return words
Return ==
    /\ pc = "scan"
    /\ i >= Len(text)
    /\ pc' = "done"
    /\ UNCHANGED <<text, sentenceId, i, words, wordIndex, spans, memo, callNo>>
    /\ UNCHANGED <<parVars, impVars, uiVars>>

\* the caller keeps the returned list
ReturnRecorded ==
    /\ pc = "scan"
    /\ i >= Len(text)
    /\ pc' = "done"
    /\ memo' = [text |-> text, sentenceId |-> sentenceId, words |-> words,
                call |-> callNo]
    /\ UNCHANGED <<text, sentenceId, i, words, wordIndex, spans, callNo, parVars, impVars, uiVars>>

Next == Iterate \/ Return

Spec == Init /\ [][Next]_vars

DetNext == DetCall \/ Iterate \/ Return \/ ReturnRecorded

DetSpec == DetInit /\ [][DetNext]_vars

\* the loop runs to completion once the function is entered
FairSpec == FairInit /\ [][Next]_vars /\ WF_vars(Iterate \/ Return)

(***************************************************************************)
(* The subtitle parser: parseSrtTime, parseSRT, parseVTT,                  *)
(* subtitlesToSentences and parseSubtitleFile.  Times are in milliseconds: *)
(* the number parseFloat returns, times 1000.                              *)
(***************************************************************************)
\* const x = e; Body(x): e is evaluated once and Body sees its value
Const(e, Body(_)) == CHOOSE v \in {Body(x) : x \in {e}} : TRUE

IsDigit(c) == c >= 48 /\ c <= 57

\* s.slice(p - 1) for a 1-based p
From(s, p) == SubSeq(s, p, Len(s))

\* the position of the first c at or after p, or 0
IndexOfFrom(s, c, p) ==
    IF \E q \in p..Len(s) : s[q] = c
    THEN CHOOSE q \in p..Len(s) : s[q] = c /\ \A r \in p..(q - 1) : s[r] # c
    ELSE 0

\* the first position at or after p that holds no white space
SkipWhitespaceFrom(s, p) ==
    CHOOSE q \in p..(Len(s) + 1) :
        /\ q = Len(s) + 1 \/ ~whitespacePattern(s[q])
        /\ \A r \in p..(q - 1) : whitespacePattern(s[r])

\* the last position at or before p that holds no white space, or 0
LastNonWhitespace(s, p) ==
    CHOOSE q \in 0..p :
        /\ q = 0 \/ ~whitespacePattern(s[q])
        /\ \A r \in (q + 1)..p : whitespacePattern(s[r])

\* String.prototype.trim
trim(s) == SubSeq(s, SkipWhitespaceFrom(s, 1), LastNonWhitespace(s, Len(s)))

\* String.prototype.includes
includes(s, pat) ==
    \E p \in 1..(Len(s) - Len(pat) + 1) : SubSeq(s, p, p + Len(pat) - 1) = pat

\* String.prototype.split with a one-character separator
RECURSIVE SplitFrom(_, _, _, _)
SplitFrom(s, sep, start, acc) ==
    LET q == IndexOfFrom(s, sep, start)
    IN  IF q = 0 THEN Append(acc, SubSeq(s, start, Len(s)))
        ELSE SplitFrom(s, sep, q + 1, Append(acc, SubSeq(s, start, q - 1)))

split(s, sep) == SplitFrom(s, sep, 1, <<>>)

\* the first position at or after p that holds no line feed
NewlineRunEnd(s, p) ==
    CHOOSE q \in p..(Len(s) + 1) :
        /\ q = Len(s) + 1 \/ s[q] # 10
        /\ \A r \in p..(q - 1) : s[r] = 10

\* the first position at or after p where two line feeds begin, or 0
BlankLineStart(s, p) ==
    IF \E q \in p..(Len(s) - 1) : s[q] = 10 /\ s[q + 1] = 10
    THEN CHOOSE q \in p..(Len(s) - 1) :
             /\ s[q] = 10 /\ s[q + 1] = 10
             /\ \A r \in p..(q - 1) : ~(s[r] = 10 /\ s[r + 1] = 10)
    ELSE 0

\* s.split(/\n\n+/)
RECURSIVE SplitBlocksFrom(_, _, _)
SplitBlocksFrom(s, start, acc) ==
    LET q == BlankLineStart(s, start)
    IN  IF q = 0 THEN Append(acc, SubSeq(s, start, Len(s)))
        ELSE SplitBlocksFrom(s, NewlineRunEnd(s, q), Append(acc, SubSeq(s, start, q - 1)))

SplitBlocks(s) == SplitBlocksFrom(s, 1, <<>>)

\* Array.prototype.join with a one-character separator
RECURSIVE join(_, _)
join(parts, sep) ==
    IF parts = <<>> THEN <<>>
    ELSE IF Len(parts) = 1 THEN parts[1]
    ELSE parts[1] \o <<sep>> \o join(Tail(parts), sep)

\* the first '<' at or after p that a '>' follows, or 0
TagStart(s, p) ==
    LET lt == IndexOfFrom(s, 60, p)
    IN  IF lt > 0 /\ IndexOfFrom(s, 62, lt + 1) > 0 THEN lt ELSE 0

\* s.replace(/<[^>]*>/g, '')
RECURSIVE StripTagsFrom(_, _, _)
StripTagsFrom(s, p, acc) ==
    LET lt == TagStart(s, p)
    IN  IF lt = 0 THEN acc \o SubSeq(s, p, Len(s))
        ELSE StripTagsFrom(s, IndexOfFrom(s, 62, lt + 1) + 1,
                           acc \o SubSeq(s, p, lt - 1))

StripTags(s) == StripTagsFrom(s, 1, <<>>)

\* s.replace(',', '.'): the first comma only
ReplaceFirstComma(s) ==
    IF IndexOfFrom(s, 44, 1) = 0 THEN s
    ELSE [s EXCEPT ![IndexOfFrom(s, 44, 1)] = 46]

\* String.prototype.toLowerCase on the letters A-Z
toLowerCase(s) == [k \in 1..Len(s) |-> IF s[k] >= 65 /\ s[k] <= 90 THEN s[k] + 32 ELSE s[k]]

RECURSIVE DigitRunEnd(_, _)
DigitRunEnd(s, p) ==
    IF p <= Len(s) /\ IsDigit(s[p]) THEN DigitRunEnd(s, p + 1) ELSE p

\* the value of the decimal digits s[p..q-1]
RECURSIVE DigitsValue(_, _, _, _)
DigitsValue(s, p, q, acc) ==
    IF p >= q THEN acc ELSE DigitsValue(s, p + 1, q, acc * 10 + (s[p] - 48))

\* parseInt(s, 10) of an unsigned numeral: [nan, val]
parseInt(s) ==
    LET p == SkipWhitespaceFrom(s, 1)
        q == DigitRunEnd(s, p)
    IN  IF q = p THEN [nan |-> TRUE, val |-> 0]
        ELSE [nan |-> FALSE, val |-> DigitsValue(s, p, q, 0)]

\* the digit of the fraction at place k (1, 2, 3) worth 100, 10, 1 thousandths
FractionDigit(s, p, q, k) ==
    IF p + k - 1 < q THEN (s[p + k - 1] - 48) * (IF k = 1 THEN 100 ELSE IF k = 2 THEN 10 ELSE 1)
    ELSE 0

\* parseFloat(s) * 1000 of an unsigned decimal numeral with at most three
\* fraction digits; -1 stands for NaN
parseFloat(s) ==
    LET p == SkipWhitespaceFrom(s, 1)
        q == DigitRunEnd(s, p)
        hasDot == q <= Len(s) /\ s[q] = 46
        r == IF hasDot THEN DigitRunEnd(s, q + 1) ELSE q
    IN  IF q = p /\ (~hasDot \/ r = q + 1) THEN -1
        ELSE DigitsValue(s, p, q, 0) * 1000
             + (IF hasDot
                THEN FractionDigit(s, q + 1, r, 1) + FractionDigit(s, q + 1, r, 2)
                     + FractionDigit(s, q + 1, r, 3)
                ELSE 0)

\* parseSrtTime with minutes added unscaled
parseSrtTimeMinutesUnscaled(timeStr) ==
    Const(ReplaceFirstComma(trim(timeStr)), LAMBDA cleanTime :
    Const(split(cleanTime, 58), LAMBDA parts :
        IF Len(parts) = 3
        THEN parseFloat(parts[1]) * 3600 + parseFloat(parts[2]) + parseFloat(parts[3])
        ELSE IF Len(parts) = 2
        THEN parseFloat(parts[1]) + parseFloat(parts[2])
        ELSE IF parseFloat(cleanTime) = -1 THEN 0 ELSE parseFloat(cleanTime)))

parseSrtTime(timeStr) ==
    Const(ReplaceFirstComma(trim(timeStr)), LAMBDA cleanTime :
    Const(split(cleanTime, 58), LAMBDA parts :
        IF Len(parts) = 3
        THEN parseFloat(parts[1]) * 3600 + parseFloat(parts[2]) * 60
             + parseFloat(parts[3])
        ELSE IF Len(parts) = 2
        THEN parseFloat(parts[1]) * 60 + parseFloat(parts[2])
        ELSE IF parseFloat(cleanTime) = -1 THEN 0 ELSE parseFloat(cleanTime)))

parseVttTime(timeStr) == parseSrtTime(timeStr)

(***************************************************************************)
(* The timestamp-range regular expressions.  A stamp alternative is        *)
(* <<parts, hour digits>>, listed in the order the engine tries them.      *)
(***************************************************************************)
DigitsAt(s, p, n) == p + n - 1 <= Len(s) /\ \A k \in 0..(n - 1) : IsDigit(s[p + k])

CharAt1(s, p, cs) == p <= Len(s) /\ s[p] \in cs

\* \d{h}:\d{2}:\d{2}[,.]\d{3} or \d{h}:\d{2}[,.]\d{3} at p: its length, or 0
StampLen(s, p, alt) ==
    IF alt[1] = 3
    THEN IF /\ DigitsAt(s, p, alt[2])
            /\ CharAt1(s, p + alt[2], {58})
            /\ DigitsAt(s, p + alt[2] + 1, 2)
            /\ CharAt1(s, p + alt[2] + 3, {58})
            /\ DigitsAt(s, p + alt[2] + 4, 2)
            /\ CharAt1(s, p + alt[2] + 6, {44, 46})
            /\ DigitsAt(s, p + alt[2] + 7, 3)
         THEN alt[2] + 10 ELSE 0
    ELSE IF /\ DigitsAt(s, p, alt[2])
            /\ CharAt1(s, p + alt[2], {58})
            /\ DigitsAt(s, p + alt[2] + 1, 2)
            /\ CharAt1(s, p + alt[2] + 3, {44, 46})
            /\ DigitsAt(s, p + alt[2] + 4, 3)
         THEN alt[2] + 7 ELSE 0

\* parseSRT's expression with the two-part alternatives of parseVTT's
SrtStampAltsWithShort == << <<3, 2>>, <<3, 1>>, <<2, 2>>, <<2, 1>> >>

\* the alternatives of parseSRT's expression and of parseVTT's
SrtStampAlts == << <<3, 2>>, <<3, 1>> >>

VttStampAlts == << <<3, 2>>, <<3, 1>>, <<2, 2>>, <<2, 1>> >>

\* the first alternative that matches at p, or 0
FirstStampAlt(s, p, alts) ==
    IF \E a \in 1..Len(alts) : StampLen(s, p, alts[a]) > 0
    THEN CHOOSE a \in 1..Len(alts) :
            /\ StampLen(s, p, alts[a]) > 0
            /\ \A b \in 1..(a - 1) : StampLen(s, p, alts[b]) = 0
    ELSE 0

\* the position of the second stamp when \s*-->\s* matches at p, or 0
ArrowEnd(s, p) ==
    LET q == SkipWhitespaceFrom(s, p)
    IN  IF q + 2 <= Len(s) /\ SubSeq(s, q, q + 2) = <<45, 45, 62>>
        THEN SkipWhitespaceFrom(s, q + 3) ELSE 0

\* the whole expression matches at p with alternative a for the first stamp
RangeMatchesAt(s, p, alts, a) ==
    /\ StampLen(s, p, alts[a]) > 0
    /\ ArrowEnd(s, p + StampLen(s, p, alts[a])) > 0
    /\ FirstStampAlt(s, ArrowEnd(s, p + StampLen(s, p, alts[a])), alts) > 0

\* s.match(expression): [found, start, end] with the two captured stamps
TimeMatch(s, alts) ==
    LET hits == {p \in 1..Len(s) : \E a \in 1..Len(alts) : RangeMatchesAt(s, p, alts, a)}
    IN  IF hits = {} THEN [found |-> FALSE, start |-> <<>>, end |-> <<>>]
        ELSE LET p == CHOOSE x \in hits : \A y \in hits : x <= y
                 a == CHOOSE x \in 1..Len(alts) :
                        /\ RangeMatchesAt(s, p, alts, x)
                        /\ \A y \in 1..(x - 1) : ~RangeMatchesAt(s, p, alts, y)
                 n == StampLen(s, p, alts[a])
                 r == ArrowEnd(s, p + n)
                 m == StampLen(s, r, alts[FirstStampAlt(s, r, alts)])
             IN  [found |-> TRUE, start |-> SubSeq(s, p, p + n - 1),
                  end |-> SubSeq(s, r, r + m - 1)]

(***************************************************************************)
(* parseSRT.  A block yields a pushed entry, nothing, or a TypeError (a    *)
(* method call on lines[1] when it is undefined).                          *)
(***************************************************************************)
SubtitleEntry(id, startTime, endTime, t) ==
    [id |-> id, startTime |-> startTime, endTime |-> endTime, text |-> t]

NoEntry == SubtitleEntry(0, 0, 0, <<>>)

\* lines.slice(2).join(' ').replace(/<[^>]*>/g, '').trim()
SrtCueText(lines) ==
    Const(join(SubSeq(lines, 3, Len(lines)), 32), LAMBDA joined :
    Const(StripTags(joined), LAMBDA stripped : trim(stripped)))

\* the body of the for loop, from the timestamp match on
SrtTimedBlock(lines, id) ==
    IF Len(lines) < 2 THEN [kind |-> "throw", entry |-> NoEntry]
    ELSE Const(TimeMatch(lines[2], SrtStampAlts), LAMBDA timeMatch :
         IF ~timeMatch.found THEN [kind |-> "skip", entry |-> NoEntry]
         ELSE Const(SrtCueText(lines), LAMBDA t :
              IF t = <<>> THEN [kind |-> "skip", entry |-> NoEntry]
              ELSE [kind |-> "push",
                    entry |-> SubtitleEntry(id, parseSrtTime(timeMatch.start),
                                            parseSrtTime(timeMatch.end), t)]))

\* the loop body without the lines.length < 3 test
SrtBlockNoLengthTest(block) ==
    Const(split(block, 10), LAMBDA lines :
        IF parseInt(lines[1]).nan THEN [kind |-> "skip", entry |-> NoEntry]
        ELSE SrtTimedBlock(lines, parseInt(lines[1]).val))

\* one iteration of the for loop over the blocks
SrtBlock(block) ==
    Const(split(block, 10), LAMBDA lines :
        IF Len(lines) < 3 THEN [kind |-> "skip", entry |-> NoEntry]
        ELSE IF parseInt(lines[1]).nan THEN [kind |-> "skip", entry |-> NoEntry]
        ELSE SrtTimedBlock(lines, parseInt(lines[1]).val))

RECURSIVE SrtLoop(_, _, _)
SrtLoop(blocks, k, ents) ==
    IF k > Len(blocks) THEN [entries |-> ents, threw |-> FALSE]
    ELSE Const(SrtBlock(blocks[k]), LAMBDA r :
         IF r.kind = "throw" THEN [entries |-> ents, threw |-> TRUE]
         ELSE IF r.kind = "push" THEN SrtLoop(blocks, k + 1, Append(ents, r.entry))
         ELSE SrtLoop(blocks, k + 1, ents))

parseSRT(c) ==
    Const(SplitBlocks(trim(c)), LAMBDA blocks : SrtLoop(blocks, 1, <<>>))

(***************************************************************************)
(* parseVTT.  Positions in lines are 0-based as in the source.             *)
(***************************************************************************)
Arrow == <<45, 45, 62>>

\* the header loop: the first position whose line includes '-->'
RECURSIVE VttHeaderEnd(_, _)
VttHeaderEnd(lines, j) ==
    IF j < Len(lines) /\ ~includes(lines[j + 1], Arrow) THEN VttHeaderEnd(lines, j + 1)
    ELSE j

\* the text loop: the first position that ends the cue's text lines
RECURSIVE VttTextEnd(_, _)
VttTextEnd(lines, j) ==
    IF j < Len(lines) /\ trim(lines[j + 1]) # <<>> /\ ~includes(lines[j + 1], Arrow)
    THEN VttTextEnd(lines, j + 1)
    ELSE j

VttCueText(lines, from, to) ==
    Const(join([k \in 1..(to - from) |-> trim(lines[from + k])], 32), LAMBDA joined :
    Const(StripTags(joined), LAMBDA stripped : trim(stripped)))

\* the main loop counting every cue, also those dropped for empty text
RECURSIVE VttLoopCountsDropped(_, _, _, _)
VttLoopCountsDropped(lines, j, ents, entryId) ==
    IF j >= Len(lines) THEN ents
    ELSE Const(TimeMatch(trim(lines[j + 1]), VttStampAlts), LAMBDA timeMatch :
         IF ~timeMatch.found THEN VttLoopCountsDropped(lines, j + 1, ents, entryId)
         ELSE Const(VttTextEnd(lines, j + 1), LAMBDA to :
              Const(VttCueText(lines, j + 1, to), LAMBDA t :
              IF t # <<>>
              THEN VttLoopCountsDropped(lines, to,
                      Append(ents, SubtitleEntry(entryId, parseVttTime(timeMatch.start),
                                                 parseVttTime(timeMatch.end), t)),
                      entryId + 1)
              ELSE VttLoopCountsDropped(lines, to, ents, entryId + 1))))

RECURSIVE VttLoop(_, _, _, _)
VttLoop(lines, j, ents, entryId) ==
    IF j >= Len(lines) THEN ents
    ELSE Const(TimeMatch(trim(lines[j + 1]), VttStampAlts), LAMBDA timeMatch :
         IF ~timeMatch.found THEN VttLoop(lines, j + 1, ents, entryId)
         ELSE Const(VttTextEnd(lines, j + 1), LAMBDA to :
              Const(VttCueText(lines, j + 1, to), LAMBDA t :
              IF t # <<>>
              THEN VttLoop(lines, to,
                      Append(ents, SubtitleEntry(entryId, parseVttTime(timeMatch.start),
                                                 parseVttTime(timeMatch.end), t)),
                      entryId + 1)
              ELSE VttLoop(lines, to, ents, entryId))))

\* parseVTT taking the header to be exactly the first line
parseVTTOneLineHeader(c) ==
    Const(split(c, 10), LAMBDA lines :
        [entries |-> VttLoop(lines, 1, <<>>, 1), threw |-> FALSE])

parseVTT(c) ==
    Const(split(c, 10), LAMBDA lines :
    Const(VttHeaderEnd(lines, 0), LAMBDA j :
        [entries |-> VttLoop(lines, j, <<>>, 1), threw |-> FALSE]))

(***************************************************************************)
(* tokenizeJapanese as a function, subtitlesToSentences, parseSubtitleFile *)
(***************************************************************************)
\* the segment and the next scan position of the iteration at position j
ScanSegment(t, j) ==
    IF SegmentType(CharAt(t, j)) = "kanji" THEN KanjiSegment(t, j)
    ELSE IF SegmentType(CharAt(t, j)) = "katakana" THEN KatakanaCollect(t, j, <<>>)
    ELSE IF SegmentType(CharAt(t, j)) = "hiragana" THEN HiraganaSegment(t, j)
    ELSE OtherCollect(t, j, <<>>)

\* the scan position after the white space and punctuation skipped from j on
NextScan(t, j) ==
    CHOOSE q \in j..Len(t) :
        /\ q = Len(t) \/ ~(whitespacePattern(CharAt(t, q)) \/ punctPattern(CharAt(t, q)))
        /\ \A r \in j..(q - 1) : whitespacePattern(CharAt(t, r)) \/ punctPattern(CharAt(t, r))

RECURSIVE TokenizeFrom(_, _, _, _, _)
TokenizeFrom(t, sid, j, ws, idx) ==
    Const(NextScan(t, j), LAMBDA q :
        IF q >= Len(t) THEN ws
        ELSE Const(ScanSegment(t, q), LAMBDA r :
             IF r[1] # <<>>
             THEN TokenizeFrom(t, sid, r[2],
                               Append(ws, createWord(r[1], WordId(sid, idx))),
                               idx + 1)
             ELSE TokenizeFrom(t, sid, r[2], ws, idx)))

tokenizeJapanese(t, sid) == TokenizeFrom(t, sid, 0, <<>>, 0)

\* `sub-${entry.id}`
SentenceId(entry) == <<115, 117, 98, 45>> \o ToDecimal(entry.id)

Sentence(id, entry, ws) ==
    [id |-> id, text |-> entry.text, reading |-> <<>>, translation |-> <<>>,
     startTime |-> entry.startTime, endTime |-> entry.endTime, words |-> ws]

\* the map callback without the fallback word
EntryToSentenceNoFallback(entry) ==
    Sentence(SentenceId(entry), entry, tokenizeJapanese(entry.text, SentenceId(entry)))

\* the map callback with a fallback word of no text
EntryToSentenceEmptyFallback(entry) ==
    Const(SentenceId(entry), LAMBDA sid :
    Const(tokenizeJapanese(entry.text, sid), LAMBDA ws :
        Sentence(sid, entry,
                 IF Len(ws) > 0 THEN ws
                 ELSE <<createWord(<<>>, sid \o <<45, 119, 48>>)>>)))

\* the map callback of subtitlesToSentences
EntryToSentence(entry) ==
    Const(SentenceId(entry), LAMBDA sid :
    Const(tokenizeJapanese(entry.text, sid), LAMBDA ws :
        Sentence(sid, entry,
                 IF Len(ws) > 0 THEN ws
                 ELSE <<createWord(entry.text, sid \o <<45, 119, 48>>)>>)))

subtitlesToSentences(ents) == [k \in 1..Len(ents) |-> EntryToSentence(ents[k])]

\* fileName.split('.').pop(), without the lower-casing
ExtensionCaseSensitive(name) == split(name, 46)[Len(split(name, 46))]

\* fileName.toLowerCase().split('.').pop()
Extension(name) == split(toLowerCase(name), 46)[Len(split(name, 46))]

(***************************************************************************)
(* Subtitle files.  A file is a list of blocks separated by one blank      *)
(* line; a block is its head lines, an optional timestamp-range line and   *)
(* its body lines, and records the number and text a cue parsed from it    *)
(* is expected to carry.  A stamp is [parts, hw, h, m, s, ms, sep]: hw is  *)
(* the number of digits of its first field, sep its decimal separator.     *)
(***************************************************************************)
MaxBlocks == 3

Stamp(parts, hw, h, m, s, ms, sep) ==
    [parts |-> parts, hw |-> hw, h |-> h, m |-> m, s |-> s, ms |-> ms, sep |-> sep]

NoStamp == Stamp(0, 0, 0, 0, 0, 0, 0)

Block(head, hasTime, start, end, body, index, plain) ==
    [head |-> head, hasTime |-> hasTime, start |-> start, end |-> end,
     body |-> body, index |-> index, plain |-> plain]

\* 1 / 00:00:01,000 --> 00:00:02,500 / 猫は
CueA ==
    Block(<< <<49>> >>, TRUE, Stamp(3, 2, 0, 0, 1, 0, 44), Stamp(3, 2, 0, 0, 2, 500, 44),
          << <<29483, 12399>> >>, 1, <<29483, 12399>>)

\* 3 / 1:34:56,789 --> 12:34:57.004 / <i>猫</i> / は a
CueC ==
    Block(<< <<51>> >>, TRUE, Stamp(3, 1, 1, 34, 56, 789, 44),
          Stamp(3, 2, 12, 34, 57, 4, 46),
          << <<60, 105, 62, 29483, 60, 47, 105, 62>>, <<12399, 32, 97>> >>, 3,
          <<29483, 32, 12399, 32, 97>>)

\* 4 / 1:02,500 --> 01:04.000 / 。
CueTwoPart ==
    Block(<< <<52>> >>, TRUE, Stamp(2, 1, 0, 1, 2, 500, 44), Stamp(2, 2, 0, 1, 4, 0, 46),
          << <<12290>> >>, 4, <<12290>>)

\* x / 00:00:05,000 --> 00:00:06,000 / は
BadIndex ==
    Block(<< <<120>> >>, TRUE, Stamp(3, 2, 0, 0, 5, 0, 44), Stamp(3, 2, 0, 0, 6, 0, 44),
          << <<12399>> >>, 0, <<12399>>)

\* 6 / 00:00:07,000 --> 00:00:08,000 / <i>
MarkupOnly ==
    Block(<< <<54>> >>, TRUE, Stamp(3, 2, 0, 0, 7, 0, 44), Stamp(3, 2, 0, 0, 8, 0, 44),
          << <<60, 105, 62>> >>, 6, <<>>)

\* 7
IndexOnly == Block(<< <<55>> >>, FALSE, NoStamp, NoStamp, <<>>, 7, <<>>)

\* WEBVTT
Header ==
    Block(<< <<87, 69, 66, 86, 84, 84>> >>, FALSE, NoStamp, NoStamp, <<>>, 0, <<>>)

Blocks ==
    {CueA, CueC, CueTwoPart, BadIndex, MarkupOnly, IndexOnly, Header}

Files == UNION {[1..n -> Blocks] : n \in 0..MaxBlocks}

\* a.srt  a.VTT  vtt  a.vtt.txt  a.x
FileNames ==
    {<<97, 46, 115, 114, 116>>, <<97, 46, 86, 84, 84>>, <<118, 116, 116>>,
     <<97, 46, 118, 116, 116, 46, 116, 120, 116>>, <<97, 46, 120>>}

\* n in decimal, padded with zeros to w digits
Pad(n, w) ==
    [k \in 1..(w - Len(ToDecimal(n))) |-> 48] \o ToDecimal(n)

RenderStamp(t) ==
    (IF t.parts = 3 THEN Pad(t.h, t.hw) \o <<58>> \o Pad(t.m, 2)
     ELSE Pad(t.m, t.hw))
    \o <<58>> \o Pad(t.s, 2) \o <<t.sep>> \o Pad(t.ms, 3)

RenderLines(b) ==
    b.head
    \o (IF b.hasTime
        THEN <<RenderStamp(b.start) \o <<32, 45, 45, 62, 32>> \o RenderStamp(b.end)>>
        ELSE <<>>)
    \o b.body

\* the line terminator: "\n" or "\r\n"
Terminator(e) == IF e = "crlf" THEN <<13, 10>> ELSE <<10>>

RECURSIVE JoinWith(_, _)
JoinWith(parts, sep) ==
    IF parts = <<>> THEN <<>>
    ELSE IF Len(parts) = 1 THEN parts[1]
    ELSE parts[1] \o sep \o JoinWith(Tail(parts), sep)

\* the text of the file
RenderFile(f, e) ==
    JoinWith([k \in 1..Len(f) |-> JoinWith(RenderLines(f[k]), Terminator(e))],
             Terminator(e) \o Terminator(e))

(***************************************************************************)
(* parseSubtitleFile(content, fileName): the parser chosen, its entries    *)
(* and the sentences returned, or the exception that leaves the call.      *)
(***************************************************************************)
Vtt == <<118, 116, 116>>

parseSubtitleFile(c, name) ==
    Const(Extension(name), LAMBDA extension :
    Const(IF extension = Vtt THEN parseVTT(c) ELSE parseSRT(c), LAMBDA r :
        [parser |-> IF extension = Vtt THEN "vtt" ELSE "srt",
         entries |-> r.entries,
         threw |-> r.threw,
         sentences |-> IF r.threw THEN <<>> ELSE subtitlesToSentences(r.entries)]))

\* the calls made: every file under the names a.srt and a.VTT, the files of
\* at most one block under every name
Inputs ==
    {in \in Files \X {"lf", "crlf"} \X FileNames :
        Len(in[1]) <= 1 \/ in[3] \in {<<97, 46, 115, 114, 116>>, <<97, 46, 86, 84, 84>>}}

FileEntry(f, e, name) ==
    /\ fileName = name
    /\ cues = f
    /\ eol = e
    /\ content = RenderFile(f, e)
    /\ parser = "none"
    /\ entries = <<>>
    /\ sentences = <<>>
    /\ threw = FALSE
    /\ ppc = "start"

\* the tokenizer's own locals while the parser runs
TokenizerIdle ==
    /\ text = <<>>
    /\ sentenceId = <<>>
    /\ i = 0
    /\ words = <<>>
    /\ wordIndex = 0
    /\ spans = <<>>
    /\ pc = "done"
    /\ callNo = 0
    /\ memo = NoMemo

ParserInit ==
    /\ TokenizerIdle
    /\ ImportIdle
    /\ UiIdle
    /\ \E in \in Inputs : FileEntry(in[1], in[2], in[3])

Parsed(r) ==
    /\ ppc = "start"
    /\ parser' = r.parser
    /\ entries' = r.entries
    /\ threw' = r.threw
    /\ sentences' = r.sentences
    /\ ppc' = IF r.threw THEN "threw" ELSE "done"
    /\ UNCHANGED <<fileName, cues, eol, content, tokVars, impVars, uiVars>>

\* if (extension === 'vtt') { entries = parseVTT(content); }
ParseAsVTT ==
    /\ Extension(fileName) = Vtt
    /\ Parsed(parseSubtitleFile(content, fileName))

\* else { entries = parseSRT(content); }
ParseAsSRT ==
    /\ Extension(fileName) # Vtt
    /\ Parsed(parseSubtitleFile(content, fileName))

ParserNext == ParseAsVTT \/ ParseAsSRT

ParserSpec == ParserInit /\ [][ParserNext]_vars

(***************************************************************************)
(* The import component (AudioImport.tsx) and the callback of App that     *)
(* stores what it is handed.  error holds a tag for the message shown:     *)
(*   "extension"  请上传字幕文件（SRT、VTT格式）                           *)
(*   "unparsed"   无法解析字幕文件，请检查格式                             *)
(*   "unread"     读取字幕文件失败 / 读取文本文件失败                      *)
(*   "empty"      文本内容为空                                             *)
(*   "nomedia"    请先导入视频或音频文件                                   *)
(*   "nokey"      请先配置 AI API Key（推荐 Gemini）                       *)
(*   "nospeech"   未能识别到语音内容                                       *)
(*   "failed"     the message of the exception, or 转录失败                *)
(***************************************************************************)
\* handleSubtitleImport(sentences, fileName) of App
onSubtitleImport(sents, name) ==
    /\ importedSentences' = sents
    /\ subtitleFileName' = name

\* setError(message); return
Reject(message) ==
    /\ error' = message
    /\ UNCHANGED <<importedSentences, subtitleFileName>>

\* const validExtensions = ['srt', 'vtt', 'txt']
validExtensions == {<<115, 114, 116>>, <<118, 116, 116>>, <<116, 120, 116>>}

\* handleSubtitleFile without the test of sentences.length
SubtitleFileParsedImportsEmpty(r) ==
    /\ parser' = r.parser
    /\ entries' = r.entries
    /\ threw' = r.threw
    /\ sentences' = r.sentences
    /\ ppc' = IF r.threw THEN "threw" ELSE "done"
    /\ IF r.threw THEN Reject("unread")
       ELSE error' = "null" /\ onSubtitleImport(r.sentences, fileName)

\* the rest of handleSubtitleFile once parseSubtitleFile has returned r
SubtitleFileParsed(r) ==
    /\ parser' = r.parser
    /\ entries' = r.entries
    /\ threw' = r.threw
    /\ sentences' = r.sentences
    /\ ppc' = IF r.threw THEN "threw" ELSE "done"
    /\ IF r.threw THEN Reject("unread")
       ELSE IF Len(r.sentences) = 0 THEN Reject("unparsed")
       ELSE error' = "null" /\ onSubtitleImport(r.sentences, fileName)

\* handleSubtitleFile(file) for the file chosen
HandleSubtitleFile ==
    /\ route \in {"none", "text", "ai"}
    /\ ppc = "start"
    /\ route' = "subtitle"
    /\ IF Extension(fileName) \notin validExtensions
       THEN /\ Reject("extension")
            /\ ppc' = "idle"
            /\ UNCHANGED <<parser, entries, sentences, threw>>
       ELSE SubtitleFileParsed(parseSubtitleFile(content, fileName))
    /\ UNCHANGED <<fileName, cues, eol, content, tokVars, uiVars>>

\* no subtitle file is chosen, or one of at most one block is chosen later:
\* the imports that can come before the subtitle file
BeforeSubtitleFile == ppc = "idle" \/ (ppc = "start" /\ Len(cues) <= 1)

\* one segment of the text import service or of a transcription
Segment(startTime, endTime, c) ==
    [startTime |-> startTime, endTime |-> endTime, content |-> c]

\* the ends of the pieces of text.split(/(?<=[。！？\n])|(?<=\. )|(?<=! )|(?<=\? )/)
SentenceEnds(t) ==
    {p \in 1..Len(t) :
        \/ p = Len(t)
        \/ t[p] \in {12290, 65281, 65311, 10}
        \/ p >= 2 /\ t[p] = 32 /\ t[p - 1] \in {46, 33, 63}}

RECURSIVE PiecesFrom(_, _, _)
PiecesFrom(t, start, acc) ==
    IF start > Len(t) THEN acc
    ELSE LET q == CHOOSE p \in SentenceEnds(t) :
                      p >= start /\ \A r \in SentenceEnds(t) : r >= start => p <= r
         IN  PiecesFrom(t, q + 1, Append(acc, SubSeq(t, start, q)))

\* parseTextContent(text, 'sentence') of the text import service
parseTextContent(t) ==
    LET pieces == IF t = <<>> THEN << <<>> >> ELSE PiecesFrom(t, 1, <<>>)
        kept == SelectSeq(pieces, LAMBDA s : trim(s) # <<>>)
    IN  [k \in 1..Len(kept) |-> Segment((k - 1) * 1000, k * 1000, trim(kept[k]))]

\* segments.map((seg, index) => ({ id: `${prefix}-${index}`, ..., words: [] }))
SegmentsToSentences(prefix, segs) ==
    [k \in 1..Len(segs) |->
        [id |-> prefix \o <<45>> \o ToDecimal(k - 1), text |-> segs[k].content,
         reading |-> <<>>, translation |-> <<>>, startTime |-> segs[k].startTime,
         endTime |-> segs[k].endTime, words |-> <<>>]]

\* n.txt
TextFileName == <<110, 46, 116, 120, 116>>

\* (empty)   。   猫は。犬   a. b   (blank, line feed)
TextContents ==
    {<<>>, <<12290>>, <<29483, 12399, 12290, 29356>>, <<97, 46, 32, 98>>, <<32, 10>>}

\* handleTextFile for a plain-text file: a name ending in neither .srt nor .vtt
HandleTextFile ==
    /\ route = "none"
    /\ BeforeSubtitleFile
    /\ route' = "text"
    /\ \E c \in TextContents, readable \in BOOLEAN :
        LET sents == SegmentsToSentences(<<116, 101, 120, 116>>, parseTextContent(c))
        IN  IF ~readable THEN Reject("unread")
            ELSE IF Len(sents) = 0 THEN Reject("empty")
            ELSE error' = "null" /\ onSubtitleImport(sents, TextFileName)
    /\ UNCHANGED <<tokVars, parVars, uiVars>>

\* v.mp4
MediaFileName == <<118, 46, 109, 112, 52>>

\* the results a transcription can have: no segment, one, two
Transcriptions ==
    {<<>>,
     <<Segment(0, 1500, <<29483, 12399>>)>>,
     <<Segment(0, 1500, <<29483, 12399>>), Segment(1500, 3000, <<12290>>)>>}

HandleAITranscribe ==
    /\ route = "none"
    /\ BeforeSubtitleFile
    /\ route' = "ai"
    /\ \E hasMedia \in BOOLEAN, hasApiKey \in BOOLEAN, ok \in BOOLEAN,
          segs \in Transcriptions :
        IF ~hasMedia THEN Reject("nomedia")
        ELSE IF ~hasApiKey THEN Reject("nokey")
        ELSE IF ~ok THEN Reject("failed")
        ELSE IF Len(segs) = 0 THEN Reject("nospeech")
        ELSE /\ error' = "null"
             /\ onSubtitleImport(SegmentsToSentences(<<97, 105>>, segs),
                                 MediaFileName \o <<95, 65, 73, 36716, 24405>>)
    /\ UNCHANGED <<tokVars, parVars, uiVars>>

\* a subtitle file is chosen, or none and a text file or a transcription follows
ImportInit ==
    /\ TokenizerIdle
    /\ ImportIdle
    /\ UiIdle
    /\ ParserIdle \/ \E in \in Inputs : FileEntry(in[1], in[2], in[3])

ImportNext == HandleSubtitleFile \/ HandleTextFile \/ HandleAITranscribe

ImportSpec == ImportInit /\ [][ImportNext]_vars

(***************************************************************************)
(* The vocabulary (hooks/useVocabulary.ts).  Each operation hands          *)
(* setVocabulary an updater prev => next; the operators below are those    *)
(* updaters.  An item carries id, word, level, reviewCount, correctCount   *)
(* and nextReview, the number of days from the review to the next one      *)
(* (-1 before the first review); the clock readings addedAt and            *)
(* lastReviewed are left out.                                              *)
(***************************************************************************)
\* the review calls made on the items of one vocabulary
MaxReviews == 7

\* const REVIEW_INTERVALS = [0, 1, 3, 7, 14, 30, 60]
REVIEW_INTERVALS == <<0, 1, 3, 7, 14, 30, 60>>

Min(a, b) == IF a < b THEN a ELSE b

Max(a, b) == IF a > b THEN a ELSE b

\* the ids `vocab-${Date.now()}-${random}` can take
VocabIds == {1, 2}

\* the words offered to addWord: 猫 and 犬 as the tokenizer makes them, and
\* 猫 as typed into the form of the vocabulary book (reading ねこ)
VocabWords ==
    {createWord(<<29483>>, <<119, 48>>),
     createWord(<<29356>>, <<119, 49>>),
     [id |-> <<109>>, text |-> <<29483>>, reading |-> <<12397, 12371>>,
      meaning |-> <<99, 97, 116>>, partOfSpeech |-> <<>>, pitch |-> <<>>]}

\* the updates handleSave of the vocabulary book passes: reading and meaning
WordUpdates == {[reading |-> <<12356, 12396>>, meaning |-> <<100, 111, 103>>]}

\* { ...word, ...updates }
Merge(word, updates) ==
    [f \in DOMAIN word \cup DOMAIN updates |->
        IF f \in DOMAIN updates THEN updates[f] ELSE word[f]]

\* addWord without the test for an item of the same text
addWordNoDuplicateTest(prev, word, id) ==
    Append(prev, [id |-> id, word |-> word, level |-> 0, reviewCount |-> 0,
                  correctCount |-> 0, nextReview |-> -1])

\* the updater of addWord(word); id is the id generated for the new item
addWord(prev, word, id) ==
    IF \E k \in 1..Len(prev) : prev[k].word.text = word.text
    THEN prev
    ELSE Append(prev, [id |-> id, word |-> word, level |-> 0, reviewCount |-> 0,
                       correctCount |-> 0, nextReview |-> -1])

\* the updater of removeWord(id)
removeWord(prev, id) == SelectSeq(prev, LAMBDA item : item.id # id)

\* the updater of updateWord(id, updates)
updateWord(prev, id, updates) ==
    [k \in 1..Len(prev) |->
        IF prev[k].id # id THEN prev[k]
        ELSE [prev[k] EXCEPT !.word = Merge(@, updates)]]

\* updateReview with the level lowered without the floor
updateReviewNoFloor(prev, id, correct) ==
    [k \in 1..Len(prev) |->
        IF prev[k].id # id THEN prev[k]
        ELSE LET newLevel == IF correct
                             THEN Min(prev[k].level + 1, Len(REVIEW_INTERVALS) - 1)
                             ELSE prev[k].level - 1
             IN  [prev[k] EXCEPT
                    !.level = newLevel,
                    !.reviewCount = @ + 1,
                    !.correctCount = IF correct THEN @ + 1 ELSE @,
                    !.nextReview = REVIEW_INTERVALS[Max(newLevel, 0) + 1]]]

\* the updater of updateReview(id, correct)
updateReview(prev, id, correct) ==
    [k \in 1..Len(prev) |->
        IF prev[k].id # id THEN prev[k]
        ELSE LET newLevel == IF correct
                             THEN Min(prev[k].level + 1, Len(REVIEW_INTERVALS) - 1)
                             ELSE Max(prev[k].level - 1, 0)
             IN  [prev[k] EXCEPT
                    !.level = newLevel,
                    !.reviewCount = @ + 1,
                    !.correctCount = IF correct THEN @ + 1 ELSE @,
                    !.nextReview = REVIEW_INTERVALS[newLevel + 1]]]

RECURSIVE TotalReviews(_)
TotalReviews(items) ==
    IF items = <<>> THEN 0 ELSE items[1].reviewCount + TotalReviews(Tail(items))

AddWord ==
    /\ \E word \in VocabWords, id \in VocabIds :
          /\ vocabulary' = addWord(vocabulary, word, id)
          /\ call' = [NoCall EXCEPT !.op = "addWord", !.text = word.text]
    /\ UNCHANGED <<tokVars, parVars, impVars, dictVars, playVars>>

RemoveWord ==
    /\ \E id \in VocabIds :
          /\ vocabulary' = removeWord(vocabulary, id)
          /\ call' = [NoCall EXCEPT !.op = "removeWord", !.id = id]
    /\ UNCHANGED <<tokVars, parVars, impVars, dictVars, playVars>>

UpdateWord ==
    /\ \E id \in VocabIds, updates \in WordUpdates :
          /\ vocabulary' = updateWord(vocabulary, id, updates)
          /\ call' = [NoCall EXCEPT !.op = "updateWord", !.id = id]
    /\ UNCHANGED <<tokVars, parVars, impVars, dictVars, playVars>>

UpdateReview ==
    /\ TotalReviews(vocabulary) < MaxReviews
    /\ \E id \in VocabIds, correct \in BOOLEAN :
          /\ vocabulary' = updateReview(vocabulary, id, correct)
          /\ call' = [NoCall EXCEPT !.op = "updateReview", !.id = id,
                                    !.correct = correct]
    /\ UNCHANGED <<tokVars, parVars, impVars, dictVars, playVars>>

VocabInit ==
    /\ TokenizerIdle
    /\ ParserIdle
    /\ ImportIdle
    /\ UiIdle

VocabNext == AddWord \/ RemoveWord \/ UpdateWord \/ UpdateReview

VocabSpec == VocabInit /\ [][VocabNext]_vars

(***************************************************************************)
(* The word explainer (WordExplainer) and lookupWord of the dictionary     *)
(* service.  A lookup in flight is [text, live]: live while the component  *)
(* instance that started it is mounted.                                    *)
(***************************************************************************)
\* the lookups that await a response at the same time
MaxLookups == 2

\* the Word that handleTextSelect builds from the selected text
SelectedWord(t) ==
    [id |-> <<115>>, text |-> t, reading |-> <<>>, meaning |-> <<>>,
     partOfSpeech |-> <<>>, pitch |-> <<>>]

\* the entry parseJishoResponse returns for a keyword the dictionary has:
\* 猫 ねこ cat, 犬 いぬ dog
DictionaryEntry(t) ==
    [word |-> t,
     reading |-> IF t = <<29483>> THEN <<12397, 12371>> ELSE <<12356, 12396>>,
     meanings |-> IF t = <<29483>> THEN << <<99, 97, 116>> >>
                  ELSE << <<100, 111, 103>> >>,
     partOfSpeech |-> <<>>, isCommon |-> TRUE]

\* what lookupWord resolves to: the entry found, or null when the data are
\* empty or every fetch failed
LookupResult(t, outcome) == IF outcome = "found" THEN DictionaryEntry(t) ELSE Null

\* a || b on strings
OrElse(a, b) == IF a # <<>> THEN a ELSE b

\* enhancedWord: the word offered to the vocabulary, merged with the entry
enhancedWord(w, entry) ==
    [w EXCEPT
        !.reading = IF entry = Null THEN w.reading
                    ELSE OrElse(entry.reading, w.reading),
        !.meaning = IF entry = Null THEN w.meaning
                    ELSE OrElse(join(entry.meanings, <<59, 32>>), w.meaning),
        !.partOfSpeech = IF entry = Null THEN w.partOfSpeech ELSE <<>>]

\* the lookups in flight once their component instance is unmounted
Orphaned(ls) == [k \in 1..Len(ls) |-> [ls[k] EXCEPT !.live = FALSE]]

\* the word prop changes to a word whose text is in the cache: lookupWord
\* returns the cached value and lookupWordInDict runs to its end
SelectCached(t) ==
    /\ cache[t] # [unset |-> TRUE]
    /\ selectedWord' = SelectedWord(t)
    /\ dictEntry' = cache[t]
    /\ lookupError' = (cache[t] = Null)
    /\ isLoading' = FALSE
    /\ UNCHANGED <<cache, lookups>>

\* the word prop changes to a word whose text is not in the cache:
\* lookupWordInDict resets the state and awaits the fetch
SelectUncached(t) ==
    /\ cache[t] = [unset |-> TRUE]
    /\ Len(lookups) < MaxLookups
    /\ selectedWord' = SelectedWord(t)
    /\ isLoading' = TRUE
    /\ lookupError' = FALSE
    /\ dictEntry' = Null
    /\ lookups' = Append(lookups, [text |-> t, live |-> TRUE])
    /\ UNCHANGED cache

\* handleTextSelect: setSelectedWord(selectedWord), and the effect on [word]
SelectWord ==
    /\ \E t \in LookupTexts : SelectCached(t) \/ SelectUncached(t)
    /\ UNCHANGED <<tokVars, parVars, impVars, vocVars, playVars>>

\* the response of lookup k arrives: lookupWord caches and returns the
\* result, and lookupWordInDict goes on after its await
LookupSettled(k, outcome) ==
    /\ cache' = [cache EXCEPT ![lookups[k].text] = LookupResult(lookups[k].text, outcome)]
    /\ lookups' = SelectSeq([j \in 1..Len(lookups) |->
                                 IF j = k THEN Null ELSE lookups[j]],
                            LAMBDA l : l # Null)
    /\ IF lookups[k].live
       THEN /\ dictEntry' = LookupResult(lookups[k].text, outcome)
            /\ lookupError' = IF LookupResult(lookups[k].text, outcome) = Null
                              THEN TRUE ELSE lookupError
            /\ isLoading' = FALSE
       ELSE UNCHANGED <<dictEntry, lookupError, isLoading>>
    /\ UNCHANGED selectedWord

Respond ==
    /\ \E k \in 1..Len(lookups), outcome \in {"found", "empty", "failed"} :
          LookupSettled(k, outcome)
    /\ UNCHANGED <<tokVars, parVars, impVars, vocVars, playVars>>

\* onClose: setSelectedWord(null) unmounts the explainer
Close ==
    /\ selectedWord # Null
    /\ selectedWord' = Null
    /\ dictEntry' = Null
    /\ isLoading' = FALSE
    /\ lookupError' = FALSE
    /\ lookups' = Orphaned(lookups)
    /\ UNCHANGED cache
    /\ UNCHANGED <<tokVars, parVars, impVars, vocVars, playVars>>

ExplainerInit ==
    /\ TokenizerIdle
    /\ ParserIdle
    /\ ImportIdle
    /\ UiIdle

ExplainerNext == SelectWord \/ Respond \/ Close

ExplainerSpec == ExplainerInit /\ [][ExplainerNext]_vars

(***************************************************************************)
(* The audio player (AudioPlayer.tsx) with a real audio file, neither      *)
(* looping nor shadowing.  Times are whole units of time.  Each handler    *)
(* is followed by the effect that synchronises the current sentence with   *)
(* the current time, which runs after every change of currentTime or of    *)
(* currentIndex.                                                           *)
(***************************************************************************)
\* the last time the audio element reports
MaxTime == 6

Range(startTime, endTime) == [startTime |-> startTime, endTime |-> endTime]

\* the sentences handed to the player: none; one; two that touch; two with
\* a gap; two that overlap; one of no duration before another
Tracks ==
    {<<>>,
     <<Range(1, 3)>>,
     <<Range(0, 2), Range(2, 4)>>,
     <<Range(0, 2), Range(3, 5)>>,
     <<Range(0, 3), Range(2, 5)>>,
     <<Range(1, 1), Range(1, 4)>>}

\* the predicate of findIndex with the end of the range included
ContainsTimeClosed(s, t) == t >= s.startTime /\ t <= s.endTime

\* s => currentTime >= s.startTime && currentTime < s.endTime
ContainsTime(s, t) == t >= s.startTime /\ t < s.endTime

\* sentences.findIndex(...), an index from 0, or -1
findIndex(sents, t) ==
    IF \E k \in 1..Len(sents) : ContainsTime(sents[k], t)
    THEN (CHOOSE k \in 1..Len(sents) :
              /\ ContainsTime(sents[k], t)
              /\ \A j \in 1..(k - 1) : ~ContainsTime(sents[j], t)) - 1
    ELSE -1

\* the effect "Sync current sentence with time": the index it leaves
SyncEffect(sents, t, index) ==
    IF findIndex(sents, t) # -1 /\ findIndex(sents, t) # index
    THEN findIndex(sents, t)
    ELSE index

\* handleTimeUpdate: setCurrentTime(audio.currentTime)
HandleTimeUpdate ==
    /\ \E t \in 0..MaxTime :
          /\ currentTime' = t
          /\ currentIndex' = SyncEffect(activeSentences, t, currentIndex)
    /\ handler' = "timeupdate"
    /\ UNCHANGED <<activeSentences, tokVars, parVars, impVars, vocVars, dictVars>>

\* handleEnded: setCurrentTime(0)
HandleEnded ==
    /\ currentTime' = 0
    /\ currentIndex' = SyncEffect(activeSentences, 0, currentIndex)
    /\ handler' = "ended"
    /\ UNCHANGED <<activeSentences, tokVars, parVars, impVars, vocVars, dictVars>>

\* handleProgressClick: newTime = percent * duration
HandleProgressClick ==
    /\ \E newTime \in 0..MaxTime :
          /\ currentTime' = newTime
          /\ currentIndex' =
                SyncEffect(activeSentences, newTime,
                           IF findIndex(activeSentences, newTime) # -1
                           THEN findIndex(activeSentences, newTime)
                           ELSE currentIndex)
    /\ handler' = "progress"
    /\ UNCHANGED <<activeSentences, tokVars, parVars, impVars, vocVars, dictVars>>

\* jumpToSentence(index), from the sentence list and the skip buttons
JumpToSentence ==
    /\ \E index \in -1..Len(activeSentences) :
          IF index >= 0 /\ index < Len(activeSentences)
          THEN /\ currentTime' = activeSentences[index + 1].startTime
               /\ currentIndex' =
                     SyncEffect(activeSentences,
                                activeSentences[index + 1].startTime, index)
          ELSE UNCHANGED <<currentTime, currentIndex>>
    /\ handler' = "jump"
    /\ UNCHANGED <<activeSentences, tokVars, parVars, impVars, vocVars, dictVars>>

PlayerInit ==
    /\ TokenizerIdle
    /\ ParserIdle
    /\ ImportIdle
    /\ VocabularyIdle
    /\ ExplainerIdle
    /\ PlayerAtStart
    /\ activeSentences \in Tracks

PlayerNext ==
    HandleTimeUpdate \/ HandleEnded \/ HandleProgressClick \/ JumpToSentence

PlayerSpec == PlayerInit /\ [][PlayerNext]_vars

TypeOK ==
    /\ pc \in {"scan", "done"}
    /\ i \in 0..Len(text)
    /\ Len(spans) = Len(words)

(***************************************************************************)
(* Vocabulary of the properties.                                           *)
(***************************************************************************)
Skipped(c) == c \in WhiteSpaceChars \cup PunctChars

StripSkipped(t) == SelectSeq(t, LAMBDA c : ~Skipped(c))

RECURSIVE ConcatTexts(_)
ConcatTexts(ws) ==
    IF ws = <<>> THEN <<>> ELSE ws[1].text \o ConcatTexts(Tail(ws))

TokenTexts == [k \in 1..Len(words) |-> words[k].text]

InKatakanaBlock(c) == c \in 12448..12543

\* p (0-based) is the first position of a maximal kanji run of the input
StartsKanjiRun(p) ==
    /\ kanjiPattern(CharAt(text, p))
    /\ p = 0 \/ ~kanjiPattern(CharAt(text, p - 1))

\* the position just after the maximal kanji run that starts at p
KanjiRunEnd(p) ==
    CHOOSE e \in (p + 1)..Len(text) :
        /\ \A q \in p..(e - 1) : kanjiPattern(CharAt(text, q))
        /\ e = Len(text) \/ ~kanjiPattern(CharAt(text, e))

\* C1: on return, the token texts concatenated in order are the input with
\* every whitespace and punctuation character removed.
Coverage == pc = "done" => ConcatTexts(words) = StripSkipped(text)

\* C2: no token contains a whitespace character or a character of the
\* punctuation set.
NoSkippedCharInToken ==
    \A k \in 1..Len(words) :
        \A n \in 1..Len(words[k].text) : ~Skipped(words[k].text[n])

\* C3: each token is the substring of the input between two scan positions,
\* the substrings are non-empty, do not overlap and follow the input order.
TokensAreOrderedSubstrings ==
    /\ Len(spans) = Len(words)
    /\ \A k \in 1..Len(words) :
        /\ 0 <= spans[k][1]
        /\ spans[k][1] < spans[k][2]
        /\ spans[k][2] <= Len(text)
        /\ words[k].text = SubSeq(text, spans[k][1] + 1, spans[k][2])
        /\ k < Len(words) => spans[k][2] <= spans[k + 1][1]

OrderedSubstringsWitness ==
    /\ pc = "done"
    /\ Len(words) >= 2
    /\ Len(words[1].text) >= 2
    /\ spans[1][2] < spans[2][1]

\* C4: a maximal kanji run directly followed by a particle is emitted alone,
\* and the next token is that one particle character.
KanjiRunStopsBeforeParticle ==
    pc = "done" =>
        \A p \in 0..(Len(text) - 1) :
            (/\ StartsKanjiRun(p)
             /\ KanjiRunEnd(p) < Len(text)
             /\ <<CharAt(text, KanjiRunEnd(p))>> \in particles)
            => \E k \in 1..(Len(words) - 1) :
                  /\ spans[k] = <<p, KanjiRunEnd(p)>>
                  /\ words[k].text = SubSeq(text, p + 1, KanjiRunEnd(p))
                  /\ spans[k + 1] = <<KanjiRunEnd(p), KanjiRunEnd(p) + 1>>
                  /\ words[k + 1].text = <<CharAt(text, KanjiRunEnd(p))>>

\* 猫は猫い is split 猫 / は / 猫い
KanjiParticleWitness ==
    /\ pc = "done"
    /\ text = <<29483, 12399, 29483, 12356>>
    /\ TokenTexts = << <<29483>>, <<12399>>, <<29483, 12356>> >>

\* C5: a token that starts at a katakana character consists of
\* katakana-block characters only and is not followed by one.
KatakanaTokenIsMaximalRun ==
    \A k \in 1..Len(words) :
        InKatakanaBlock(words[k].text[1]) =>
            /\ \A n \in 1..Len(words[k].text) : InKatakanaBlock(words[k].text[n])
            /\ words[k].text = SubSeq(text, spans[k][1] + 1, spans[k][2])
            /\ spans[k][2] < Len(text) => ~InKatakanaBlock(CharAt(text, spans[k][2]))

\* コー followed by a character outside the block
KatakanaRunWitness ==
    /\ pc = "done"
    /\ \E k \in 1..Len(words) :
        /\ words[k].text = <<12467, 12540>>
        /\ spans[k][2] < Len(text)

\* C6: the result is empty exactly when the input has no character other
\* than whitespace and punctuation.
EmptyIffAllSkipped ==
    pc = "done" =>
        (words = <<>> <=> \A n \in 1..Len(text) : Skipped(text[n]))

EmptyResultWitness ==
    /\ pc = "done"
    /\ words = <<>>
    /\ Len(text) >= 2
    /\ \E n \in 1..Len(text) : text[n] \in PunctChars

\* C7: the k-th token (from 0) has the id "<segment id>-w<k>", so the ids of
\* one call are pairwise distinct.
TokenIdsAreSequential ==
    /\ \A k \in 1..Len(words) :
        /\ k - 1 < 10
        /\ words[k].id = sentenceId \o <<45, 119, 48 + (k - 1)>>
    /\ \A k, m \in 1..Len(words) : words[k].id = words[m].id => k = m

TokenIdsWitness ==
    /\ pc = "done"
    /\ Len(words) >= 3
    /\ words[3].id = <<115, 117, 98, 45, 49, 45, 119, 50>>

\* C8 as stated: reading, meaning, partOfSpeech and pitch of every token are
\* empty.
AllPlaceholdersEmpty ==
    \A k \in 1..Len(words) :
        /\ words[k].reading = <<>>
        /\ words[k].meaning = <<>>
        /\ words[k].partOfSpeech = <<>>
        /\ words[k].pitch = <<>>

\* C8: reading, partOfSpeech and pitch of every token are empty and its
\* meaning is the fixed placeholder text of createWord.
PlaceholdersFixedAtTokenization ==
    \A k \in 1..Len(words) :
        /\ words[k].reading = <<>>
        /\ words[k].meaning = <<28857, 20987, 26597, 30475, 26356, 22810>>
        /\ words[k].partOfSpeech = <<>>
        /\ words[k].pitch = <<>>

PlaceholdersWitness == pc = "done" /\ Len(words) >= 2 /\ callNo = 1

\* C9: a call returns the list an earlier call with the same text and
\* segment id returned, whatever calls were made in between.
SameInputSameTokens ==
    (/\ pc = "done"
     /\ memo.call > 0
     /\ memo.text = text
     /\ memo.sentenceId = sentenceId)
    => words = memo.words

\* the recorded call and the current one are separated by another call
RepeatedCallWitness ==
    /\ pc = "done"
    /\ memo.call > 0
    /\ callNo >= memo.call + 2
    /\ memo.text = text
    /\ memo.sentenceId = sentenceId
    /\ Len(words) >= 2

\* C10: every iteration of the outer loop moves the scan index forward by at
\* least one character and not past the end, and the call returns.
ScanAdvancesAndReturns ==
    /\ [][(pc = "scan" /\ pc' = "scan") => (i' >= i + 1 /\ i' <= Len(text))]_vars
    /\ <>(pc = "done")

\* a returned call that took a skip step and a step of several characters
ScanWitness ==
    /\ pc = "done"
    /\ i = Len(text)
    /\ Len(text) = 3
    /\ \E n \in 1..Len(text) : Skipped(text[n])
    /\ \E k \in 1..Len(words) : spans[k][2] >= spans[k][1] + 2

(***************************************************************************)
(* Vocabulary of the properties of the subtitle parser.                    *)
(***************************************************************************)
\* the worth of a stamp in milliseconds
StampMs(t) ==
    ((IF t.parts = 3 THEN t.h * 3600 ELSE 0) + t.m * 60 + t.s) * 1000 + t.ms

ThreePart(b) == b.hasTime /\ b.start.parts = 3 /\ b.end.parts = 3

TwoPart(b) == b.hasTime /\ b.start.parts = 2 /\ b.end.parts = 2

\* integer index line, H:MM:SS,mmm --> H:MM:SS,mmm line, text left after the
\* markup is stripped
WellFormedBlock(b) == ThreePart(b) /\ b.index > 0 /\ b.plain # <<>>

\* a block that fails one of the validity checks of parseSRT
BadBlock(b) == b.index = 0 \/ ~ThreePart(b) \/ Len(RenderLines(b)) < 3

GoodBlock(b) == ~BadBlock(b)

\* a block from which parseVTT emits a cue
VttCue(b) == b.hasTime /\ b.plain # <<>>

\* C11: an SRT input of n well-formed blocks separated by blank lines yields
\* exactly n segments, the k-th from the k-th block.
SrtSegmentPerBlock ==
    (/\ ppc = "done"
     /\ parser = "srt"
     /\ \A k \in 1..Len(cues) : WellFormedBlock(cues[k]))
    => /\ Len(entries) = Len(cues)
       /\ \A k \in 1..Len(cues) : entries[k].id = cues[k].index

BadBlocksLeaveOthers ==
    (ppc \in {"done", "threw"} /\ parser = "srt")
    => /\ ~threw
       /\ entries = parseSRT(RenderFile(SelectSeq(cues, GoodBlock), eol)).entries

\* C14 as stated: parseSRT accepts a block with a two-part timestamp line
\* and the segment has the times MM*60+SS.mmm.
TwoPartAcceptedBySrt ==
    (/\ ppc = "done"
     /\ parser = "srt"
     /\ Len(cues) = 1
     /\ TwoPart(cues[1]))
    => /\ Len(entries) = 1
       /\ entries[1].startTime = StampMs(cues[1].start)
       /\ entries[1].endTime = StampMs(cues[1].end)

\* C14: parseSRT omits a block whose timestamp line has the two-part form;
\* parseVTT accepts it, with the times (MM*60 + SS)*1000 + mmm ms.
TwoPartOnlyInVtt ==
    ppc = "done" =>
        \A j \in 1..Len(cues) :
            (TwoPart(cues[j]) /\ cues[j].plain # <<>>) =>
                IF parser = "srt"
                THEN \A k \in 1..Len(entries) : entries[k].id # cues[j].index
                ELSE \E k \in 1..Len(entries) :
                        /\ entries[k].text = cues[j].plain
                        /\ entries[k].startTime = StampMs(cues[j].start)
                        /\ entries[k].endTime = StampMs(cues[j].end)

\* parseSRT returned the one three-part cue of a file that also has a
\* two-part cue
TwoPartWitness ==
    /\ ppc = "done"
    /\ parser = "srt"
    /\ eol = "lf"
    /\ cues = <<CueTwoPart, CueA>>
    /\ Len(entries) = 1
    /\ entries[1].id = 1

\* C15: parseSRT, parseVTT and parseSubtitleFile return a list and never
\* raise an error.
NeverThrows == ~threw /\ ppc # "threw"

\* a file with a block of one line was parsed and the other cue returned
MalformedOmittedWitness ==
    /\ ppc = "done"
    /\ parser = "srt"
    /\ eol = "lf"
    /\ cues = <<IndexOnly, CueA>>
    /\ Len(entries) = 1

\* the content without the lines before the first line that contains "-->"
LeadingLinesDropped(c) ==
    LET lines == split(c, 10)
        timed == {k \in 1..Len(lines) : includes(lines[k], Arrow)}
    IN  IF timed = {} THEN <<>>
        ELSE join(SubSeq(lines, CHOOSE k \in timed : \A m \in timed : k <= m,
                         Len(lines)), 10)

\* C16: parseVTT's result equals its result on the input without the lines
\* before the first line that contains "-->".
HeaderContributesNothing ==
    (ppc = "done" /\ parser = "vtt")
    => entries = parseVTT(LeadingLinesDropped(content)).entries

\* a file that starts with the WEBVTT header and has cues was parsed
HeaderWitness ==
    /\ ppc = "done"
    /\ parser = "vtt"
    /\ Len(cues) >= 2
    /\ cues[1] = Header
    /\ Len(entries) >= 1
    /\ LeadingLinesDropped(content) # content

\* C17: the k-th segment of parseVTT has index k and no segment has empty
\* text.
VttIdsSequential ==
    (ppc = "done" /\ parser = "vtt")
    => \A k \in 1..Len(entries) : entries[k].id = k /\ entries[k].text # <<>>

\* a cue dropped for empty text precedes an emitted one
DroppedCueWitness ==
    /\ ppc = "done"
    /\ parser = "vtt"
    /\ cues = <<CueA, MarkupOnly, CueC>>
    /\ Len(entries) = 2
    /\ entries[2].id = 2

\* the text after the last '.' of the name (the whole name when it has none)
AfterLastDot(name) ==
    LET dots == {p \in 1..Len(name) : name[p] = 46}
    IN  IF dots = {} THEN name
        ELSE SubSeq(name, (CHOOSE p \in dots : \A q \in dots : q <= p) + 1, Len(name))

LowerCased(s) == [k \in 1..Len(s) |-> IF s[k] \in 65..90 THEN s[k] + 32 ELSE s[k]]

\* C18: parseSubtitleFile uses the VTT parser exactly when the text after
\* the last '.' of the name, lower-cased, is "vtt", the SRT parser for every
\* other name, and raises no error.
DispatchByExtension ==
    ppc # "start" =>
        /\ ppc = "done"
        /\ parser = (IF LowerCased(AfterLastDot(fileName)) = <<118, 116, 116>>
                     THEN "vtt" ELSE "srt")

\* a.VTT went to the VTT parser
DispatchWitness ==
    /\ ppc = "done"
    /\ fileName = <<97, 46, 86, 84, 84>>
    /\ parser = "vtt"
    /\ Len(entries) >= 1

\* C19: every returned sentence has at least one word: the one fallback
\* word with the segment text and the id "<sentenceId>-w0" when the tokenizer
\* returns [], the tokenizer's output otherwise.
SentencesHaveWords ==
    ppc = "done" =>
        /\ Len(sentences) = Len(entries)
        /\ \A k \in 1..Len(sentences) :
              /\ sentences[k].id = <<115, 117, 98, 45>> \o ToDecimal(entries[k].id)
              /\ sentences[k].text = entries[k].text
              /\ Len(sentences[k].words) >= 1
              /\ IF tokenizeJapanese(sentences[k].text, sentences[k].id) = <<>>
                 THEN /\ Len(sentences[k].words) = 1
                      /\ sentences[k].words[1].text = sentences[k].text
                      /\ sentences[k].words[1].id = sentences[k].id \o <<45, 119, 48>>
                 ELSE sentences[k].words
                          = tokenizeJapanese(sentences[k].text, sentences[k].id)

\* one sentence carries the fallback word, another the tokenizer's words
FallbackWitness ==
    /\ ppc = "done"
    /\ \E k \in 1..Len(sentences) :
          /\ sentences[k].text = <<12290>>
          /\ Len(sentences[k].words) = 1
          /\ sentences[k].words[1].text = <<12290>>
    /\ \E k \in 1..Len(sentences) : Len(sentences[k].words) >= 2

\* C20: every sentence handed to onSubtitleImport, by any import path,
\* carries the tokenizer's words for its text or the single fallback word.
ImportedSentencesTokenized ==
    \A k \in 1..Len(importedSentences) :
        /\ Len(importedSentences[k].words) >= 1
        /\ IF tokenizeJapanese(importedSentences[k].text, importedSentences[k].id) = <<>>
           THEN importedSentences[k].words[1].text = importedSentences[k].text
           ELSE importedSentences[k].words
                    = tokenizeJapanese(importedSentences[k].text, importedSentences[k].id)

\* C21: when the parse of an imported subtitle file returns no sentence, the
\* handler sets the error message and does not call onSubtitleImport: the
\* sentences and the file name imported before stay as they were, and the
\* file is parsed once (nothing is parsed after the handler has returned).
EmptyParseReported ==
    [][/\ (ppc = "start" /\ ppc' = "done" /\ sentences' = <<>>)
            => /\ error' = "unparsed"
               /\ UNCHANGED <<importedSentences, subtitleFileName>>
       /\ ppc \in {"done", "threw"} => UNCHANGED parVars]_vars

\* an empty parse was reported after a text import had stored its sentences
EmptyParseWitness ==
    /\ route = "subtitle"
    /\ ppc = "done"
    /\ sentences = <<>>
    /\ error = "unparsed"
    /\ importedSentences # <<>>
    /\ subtitleFileName = TextFileName

\* the text consists of white space and punctuation characters only
AllSkipped(t) == \A n \in 1..Len(t) : Skipped(t[n])

\* C22 as stated: no word of a returned sentence, fallback words included,
\* has an empty text or a text of punctuation and white space only.
WordsNeverPunctuation ==
    ppc = "done" =>
        \A k \in 1..Len(sentences) : \A n \in 1..Len(sentences[k].words) :
            /\ sentences[k].words[n].text # <<>>
            /\ ~AllSkipped(sentences[k].words[n].text)

\* C22: no word of a returned sentence has an empty text.  A sentence whose
\* text holds a character other than punctuation and white space carries the
\* tokenizer's words, each starting with such a character; a sentence whose
\* text is punctuation and white space only carries one fallback word, whose
\* text is the sentence's text.
OnlyFallbackWordsArePunctuation ==
    ppc = "done" =>
        \A k \in 1..Len(sentences) :
            /\ \A n \in 1..Len(sentences[k].words) : sentences[k].words[n].text # <<>>
            /\ IF AllSkipped(sentences[k].text)
               THEN /\ Len(sentences[k].words) = 1
                    /\ sentences[k].words[1].text = sentences[k].text
               ELSE \A n \in 1..Len(sentences[k].words) :
                        ~Skipped(sentences[k].words[n].text[1])

\* a returned sentence of punctuation only, next to a tokenized one
PunctuationWordWitness ==
    /\ ppc = "done"
    /\ \E k \in 1..Len(sentences) :
          /\ AllSkipped(sentences[k].text)
          /\ AllSkipped(sentences[k].words[1].text)
    /\ \E k \in 1..Len(sentences) :
          /\ ~AllSkipped(sentences[k].text)
          /\ Len(sentences[k].words) >= 2

LevelInDocumentedRange ==
    \A k \in 1..Len(vocabulary) : vocabulary[k].level \in 0..5

HiraganaRunEnd(p) ==
    CHOOSE e \in (p + 1)..Len(text) :
        /\ \A q \in p..(e - 1) : hiraganaPattern(CharAt(text, q))
        /\ e = Len(text) \/ ~hiraganaPattern(CharAt(text, e))

DistinctSentenceIds ==
    ppc = "done" =>
        /\ \A j \in 1..Len(sentences) : \A k \in 1..Len(sentences) :
              sentences[j].id = sentences[k].id => j = k
        /\ \A j \in 1..Len(sentences) : \A k \in 1..Len(sentences) :
              \A m \in 1..Len(sentences[j].words) :
                  \A n \in 1..Len(sentences[k].words) :
                      sentences[j].words[m].id = sentences[k].words[n].id
                          => (j = k /\ m = n)

\* C29: when a word is selected and no lookup of the mounted explainer awaits
\* its response, the entry displayed is an entry of the selected word, never
\* of a word selected before, and so is the reading merged into the word
\* offered to the vocabulary.
DisplaysCurrentLookup ==
    (/\ selectedWord # Null
     /\ \A k \in 1..Len(lookups) : ~lookups[k].live
     /\ dictEntry # Null)
        => /\ dictEntry.word = selectedWord.text
           /\ enhancedWord(selectedWord, dictEntry).reading
                 = DictionaryEntry(selectedWord.text).reading

\* some sentence's range [startTime, endTime) holds t
Covered(t) ==
    \E k \in 1..Len(activeSentences) :
        activeSentences[k].startTime <= t /\ t < activeSentences[k].endTime

\* the lowest index, from 0, of a sentence whose range holds t
LowestCovering(t) ==
    CHOOSE n \in 0..(Len(activeSentences) - 1) :
        /\ activeSentences[n + 1].startTime <= t /\ t < activeSentences[n + 1].endTime
        /\ \A m \in 0..(n - 1) :
              ~(activeSentences[m + 1].startTime <= t /\ t < activeSentences[m + 1].endTime)

\* C30: after the player has set its current time to t, the current index is
\* the lowest index of a sentence with startTime <= t < endTime; when no
\* sentence's range holds t, a time update or a click on the progress bar
\* leaves the current index as it was.
SyncIsHalfOpen ==
    [][/\ Covered(currentTime') => currentIndex' = LowestCovering(currentTime')
       /\ (/\ handler' \in {"timeupdate", "ended", "progress"}
           /\ ~Covered(currentTime'))
              => currentIndex' = currentIndex]_vars

\* with sentences [0, 2) and [3, 5), a time update to 2, the end of the
\* first, has left the index at the second sentence
EndTimeNotCoveredWitness ==
    /\ activeSentences = <<Range(0, 2), Range(3, 5)>>
    /\ handler = "timeupdate"
    /\ currentTime = 2
    /\ currentIndex = 1
====
